---- MODULE Spec2Model ----
(***************************************************************************)
(* libfs/fs.c: a FAT-style file system over a block device.  The state is  *)
(* the four global images of fs.c (super, fat, root, files) and the data   *)
(* blocks of the block device; there is one action per API function.       *)
(***************************************************************************)
EXTENDS Integers, Sequences, FiniteSets, TLC

\* ------------------------------------------------------------------ sizes
\* Field width of a file name (fs.h; 16 in the specification).
FS_FILENAME_LEN == 16
\* End-of-chain / empty-file marker, the uint16_t 0xFFFF.
FAT_EOC == 65535
\* The table sizes and the block size are scaled down so that full tables
\* and block boundaries are reached in a few calls; the code only compares
\* against them.  fs.h has 128 directory slots, 32 open-file slots; disk.h
\* has 4096 bytes per block.
FS_FILE_MAX_COUNT == 3
FS_OPEN_MAX_COUNT == 2
BLOCK_SIZE == 2
\* Data blocks of the mounted volume.
DataBlocks == 3
\* files.open is an int that create/open only ever increment; the model
\* stops calling them once it has passed the largest value the code tests.
OpenCap == FS_FILE_MAX_COUNT + 1

Min(a, b) == IF a < b THEN a ELSE b

\* ------------------------------------------------------------- file names
\* A const char *filename is modelled by the FS_FILENAME_LEN bytes found at
\* the pointer: the characters, the terminating NUL and whatever the caller's
\* memory holds after it (memcmp over FS_FILENAME_LEN bytes reads them).
Zeros == [i \in 1..FS_FILENAME_LEN |-> 0]

\* The string s in a buffer that is zero after the terminator.
Clean(s) == [i \in 1..FS_FILENAME_LEN |-> IF i <= Len(s) THEN s[i] ELSE 0]

\* The string s followed by its terminator and then other non-zero bytes.
Dirty(s) == [i \in 1..FS_FILENAME_LEN |->
               IF i <= Len(s) THEN s[i] ELSE IF i = Len(s) + 1 THEN 0 ELSE 7]

\* A buffer with no NUL in its first FS_FILENAME_LEN bytes.
TooLong == [i \in 1..FS_FILENAME_LEN |-> 97]

Windows == {Clean(<<97>>), Dirty(<<97>>), Clean(<<98>>), Clean(<<99>>),
            Clean(<<>>), Dirty(<<>>), TooLong}

\* strlen, saturated at FS_FILENAME_LEN (the code only tests >=).
strlen(w) ==
  IF \E i \in 1..FS_FILENAME_LEN : w[i] = 0
  THEN (CHOOSE i \in 1..FS_FILENAME_LEN :
          w[i] = 0 /\ \A k \in 1..(i - 1) : w[k] # 0) - 1
  ELSE FS_FILENAME_LEN

\* strncpy(dst, w, FS_FILENAME_LEN): the characters, then NUL padding.
strncpy(w) == [i \in 1..FS_FILENAME_LEN |-> IF i <= strlen(w) THEN w[i] ELSE 0]

\* memcmp(a, b, FS_FILENAME_LEN) == 0
memcmp0(a, b) == \A i \in 1..FS_FILENAME_LEN : a[i] = b[i]

\* ------------------------------------------------------------------ state
VARIABLES
  dev,      \* the block device: whether a disk is open, which, and how
            \* many times block_disk_open has succeeded
  vol,      \* the disk files, by name: block count, metadata blocks, data
  mounted,  \* name of the volume whose mount is active, "" when none is
  super,    \* struct SuperBlock
  fat,      \* fat.flat[0 .. data_blocks-1]
  root,     \* root.entry[0 .. FS_FILE_MAX_COUNT-1]
  files,    \* struct Files: the counter open and file[0 .. FS_OPEN_MAX_COUNT-1]
  disk,     \* contents of the data blocks of the block device, by block number
  wild,     \* indices >= data_blocks at which fat.flat[] has been stored to
  crashed,  \* the process died on an invalid memory access
  last      \* the last call: function, arguments, return value, output

vars == <<dev, vol, mounted, super, fat, root, files, disk, wild, crashed, last>>

DirSlots == 0..(FS_FILE_MAX_COUNT - 1)
FdSlots == 0..(FS_OPEN_MAX_COUNT - 1)

ZeroEntry == [filename |-> Zeros, file_size |-> 0, data_index |-> 0]
ZeroFile == [filename |-> Zeros, offset |-> 0]

NoCall == [op |-> "none", w |-> Zeros, fd |-> 0, n |-> 0, buf |-> <<>>,
           ret |-> 0, out |-> <<>>]

\* ------------------------------------------------------- mounted volumes
\* Superblock of a volume with d data blocks, as fs_mount accepts it.
SuperOf(d) ==
  LET fb == (d * 2 + BLOCK_SIZE - 1) \div BLOCK_SIZE
  IN [signature |-> "ECS150FS",
      total_blocks |-> fb + d + 2, root_index |-> fb + 1,
      data_index |-> fb + 2, data_blocks |-> d, fat_blocks |-> fb]

ZeroBlock == [i \in 1..BLOCK_SIZE |-> 0]
BlockOf(b) == [i \in 1..BLOCK_SIZE |-> b]

DataBlockNumbers(s) == s.data_index..(s.total_blocks - 1)

\* A freshly formatted volume.
EmptyImage ==
  [fat |-> [i \in 0..(DataBlocks - 1) |-> IF i = 0 THEN FAT_EOC ELSE 0],
   root |-> [i \in DirSlots |-> ZeroEntry],
   disk |-> [b \in DataBlockNumbers(SuperOf(DataBlocks)) |-> ZeroBlock]]

\* A volume holding "a" on the two-block chain 1 -> 2.
ChainImage ==
  [fat |-> [i \in 0..(DataBlocks - 1) |->
              IF i = 0 THEN FAT_EOC ELSE IF i = 1 THEN 2
              ELSE IF i = 2 THEN FAT_EOC ELSE 0],
   root |-> [i \in DirSlots |->
              IF i = 0 THEN [filename |-> Clean(<<97>>),
                             file_size |-> BLOCK_SIZE + 1, data_index |-> 1]
              ELSE ZeroEntry],
   disk |-> [b \in DataBlockNumbers(SuperOf(DataBlocks)) |->
              IF b = SuperOf(DataBlocks).data_index + 1 THEN BlockOf(1)
              ELSE IF b = SuperOf(DataBlocks).data_index + 2 THEN BlockOf(2)
              ELSE ZeroBlock]]

\* A volume holding the one-block file "a" and the empty file "b".
EmptyFileImage ==
  [fat |-> [i \in 0..(DataBlocks - 1) |->
              IF i = 0 THEN FAT_EOC ELSE IF i = 1 THEN FAT_EOC ELSE 0],
   root |-> [i \in DirSlots |->
              IF i = 0 THEN [filename |-> Clean(<<97>>),
                             file_size |-> 1, data_index |-> 1]
              ELSE IF i = 1 THEN [filename |-> Clean(<<98>>),
                                  file_size |-> 0, data_index |-> FAT_EOC]
              ELSE ZeroEntry],
   disk |-> [b \in DataBlockNumbers(SuperOf(DataBlocks)) |->
              IF b = SuperOf(DataBlocks).data_index + 1 THEN BlockOf(1)
              ELSE ZeroBlock]]

Images == {EmptyImage, ChainImage, EmptyFileImage}

\* Names of the disk files that exist, and the names fs_mount is called with.
Volumes == {"good", "bad"}
Disknames == Volumes \cup {"none"}

\* FAT entries per block.
FatPerBlock == BLOCK_SIZE \div 2

\* The disk file that holds image img: block 0 the superblock, blocks
\* 1 .. fat_blocks the FAT, block root_index the root directory, then data.
VolumeOf(img) ==
  [count |-> SuperOf(DataBlocks).total_blocks,
   super |-> SuperOf(DataBlocks),
   fat |-> img.fat, root |-> img.root, data |-> img.disk]

\* Disk files that fs_mount must refuse, one for each of its tests.
BadSignature == [VolumeOf(EmptyImage) EXCEPT !.super.signature = "ECS150FX"]
BadSum == [VolumeOf(EmptyImage) EXCEPT !.super.total_blocks = @ + 1]
BadCount ==
  [VolumeOf(EmptyImage) EXCEPT
     !.count = @ + 1,
     !.data = [b \in SuperOf(DataBlocks).data_index..SuperOf(DataBlocks).total_blocks
                 |-> ZeroBlock]]
BadOrder == [VolumeOf(EmptyImage) EXCEPT !.super.data_index = @ + 1]
BadFatBlocks ==
  LET s == SuperOf(DataBlocks)
  IN [count |-> s.total_blocks - 1,
      super |-> [s EXCEPT !.fat_blocks = @ - 1, !.root_index = @ - 1,
                          !.data_index = @ - 1, !.total_blocks = @ - 1],
      fat |-> [i \in 0..(DataBlocks - 2) |-> IF i = 0 THEN FAT_EOC ELSE 0],
      root |-> [i \in DirSlots |-> ZeroEntry],
      data |-> [b \in (s.data_index - 1)..(s.total_blocks - 2) |-> ZeroBlock]]
BadFatZero == [VolumeOf(EmptyImage) EXCEPT !.fat[0] = 0]
BadVolumes ==
  {BadSignature, BadSum, BadCount, BadOrder, BadFatBlocks, BadFatZero}

\* The state after process start and a successful fs_mount of a volume.
Init ==
  /\ \E img \in Images :
       /\ fat = img.fat
       /\ root = img.root
       /\ disk = img.disk
       /\ vol = [v \in {"good"} |-> VolumeOf(img)]
  /\ dev = [open |-> TRUE, name |-> "good", opens |-> 1]
  /\ mounted = "good"
  /\ super = SuperOf(DataBlocks)
  /\ files = [open |-> 0, file |-> [j \in FdSlots |-> ZeroFile]]
  /\ wild = {}
  /\ crashed = FALSE
  /\ last = NoCall

\* ----------------------------------------------------------------- helpers
\* First directory entry whose name field equals the 16 bytes at w, or -1.
FindEntry(r, w) ==
  IF \E i \in DirSlots : memcmp0(r[i].filename, w)
  THEN CHOOSE i \in DirSlots :
         /\ memcmp0(r[i].filename, w)
         /\ \A k \in DirSlots : k < i => ~memcmp0(r[k].filename, w)
  ELSE -1

\* First directory entry whose name starts with NUL, or -1.
FreeEntry(r) ==
  IF \E i \in DirSlots : r[i].filename[1] = 0
  THEN CHOOSE i \in DirSlots :
         /\ r[i].filename[1] = 0
         /\ \A k \in DirSlots : k < i => r[k].filename[1] # 0
  ELSE -1

\* First open-file slot whose name starts with NUL, or -1.
FreeFile(f) ==
  IF \E j \in FdSlots : f.file[j].filename[1] = 0
  THEN CHOOSE j \in FdSlots :
         /\ f.file[j].filename[1] = 0
         /\ \A k \in FdSlots : k < j => f.file[k].filename[1] # 0
  ELSE -1

\* First FAT entry equal to 0, or -1.
FreeFat(ft) ==
  IF \E i \in DOMAIN ft : ft[i] = 0
  THEN CHOOSE i \in DOMAIN ft : ft[i] = 0 /\ \A k \in DOMAIN ft : k < i => ft[k] # 0
  ELSE -1

\* block_read / block_write need an open disk and accept a block number
\* below its block count.
BlockOk(s, b) == dev.open /\ b >= 0 /\ b < vol[dev.name].count

Call(op, w, fd, n, buf, ret, out) ==
  [op |-> op, w |-> w, fd |-> fd, n |-> n, buf |-> buf, ret |-> ret, out |-> out]

\* --------------------------------------------------------------- fs_create
\* The directory entry fs_create fills in: name and size always, data_index
\* only when the FAT scan finds a free entry.
NewEntry(old, w, ft) ==
  [filename |-> strncpy(w), file_size |-> 0,
   data_index |-> IF FreeFat(ft) # -1 THEN FAT_EOC ELSE old.data_index]

\* The FAT after fs_create's scan: the first free entry is marked.
CreateFat(ft) ==
  IF FreeFat(ft) # -1 THEN [ft EXCEPT ![FreeFat(ft)] = FAT_EOC] ELSE ft

\* fs_create's capacity test.
CreateFull(f) == f.open = FS_FILE_MAX_COUNT

\* fs_create's scan reads fat.flat[0] while fat.flat is still NULL: the
\* process dies on the read.
NullFatScan(s, ft) == DOMAIN ft = {} /\ s.data_blocks > 0

fs_create(w) ==
  /\ ~crashed
  /\ files.open < OpenCap
  /\ IF \/ strlen(w) >= FS_FILENAME_LEN
        \/ CreateFull(files)
        \/ FindEntry(root, w) # -1
        \/ FreeEntry(root) = -1
     THEN /\ last' = Call("create", w, 0, 0, <<>>, -1, <<>>)
          /\ UNCHANGED <<dev, vol, mounted, super, fat, root, files, disk, wild, crashed>>
     ELSE IF NullFatScan(super, fat)
     THEN /\ crashed' = TRUE
          /\ last' = Call("killed", w, 0, 0, <<>>, 0, <<>>)
          /\ UNCHANGED <<dev, vol, mounted, super, fat, root, files, disk, wild>>
     ELSE /\ root' = [root EXCEPT ![FreeEntry(root)] = NewEntry(@, w, fat)]
          /\ fat' = CreateFat(fat)
          /\ files' = [files EXCEPT !.open = @ + 1]
          /\ last' = Call("create", w, 0, 0, <<>>, 0, <<>>)
          /\ UNCHANGED <<dev, vol, mounted, super, disk, wild, crashed>>

\* --------------------------------------------------------------- fs_delete
\* fs_delete's test that nothing is open.
DeleteAllowed(f) == f.open = 0

\* The FAT after fs_delete's single store fat.flat[data_index] = 0, when the
\* index lies inside the array.
DeleteFat(ft, e) ==
  IF e.data_index \in DOMAIN ft THEN [ft EXCEPT ![e.data_index] = 0] ELSE ft

\* The store of fs_delete lands outside fat.flat[] for this entry: it either
\* overwrites other memory of the process or kills it (the call marked
\* "killed" returns nothing).
DeleteOutOfBounds(ft, e) == e.data_index \notin DOMAIN ft

fs_delete(w) ==
  /\ ~crashed
  /\ IF FindEntry(root, w) = -1 \/ ~DeleteAllowed(files)
     THEN /\ last' = Call("delete", w, 0, 0, <<>>, -1, <<>>)
          /\ UNCHANGED <<dev, vol, mounted, super, fat, root, files, disk, wild, crashed>>
     ELSE LET i == FindEntry(root, w)
              e == root[i]
          IN \/ /\ fat' = DeleteFat(fat, e)
                /\ wild' = IF DeleteOutOfBounds(fat, e)
                           THEN wild \cup {e.data_index} ELSE wild
                /\ root' = [root EXCEPT ![i] = ZeroEntry]
                /\ last' = Call("delete", w, 0, 0, <<>>, 0, <<>>)
                /\ UNCHANGED <<dev, vol, mounted, super, files, disk, crashed>>
             \/ /\ DeleteOutOfBounds(fat, e)
                /\ crashed' = TRUE
                /\ last' = Call("killed", w, 0, 0, <<>>, 0, <<>>)
                /\ UNCHANGED <<dev, vol, mounted, super, fat, root, files, disk, wild>>

\* ----------------------------------------------------------------- fs_open
\* fs_open's capacity test.
OpenFull(f) == f.open = FS_OPEN_MAX_COUNT

\* (fault) fs_open without its files.open++.
OpenFilesNoCount(f, j, w) ==
  [open |-> f.open,
   file |-> [f.file EXCEPT ![j] = [filename |-> strncpy(w), offset |-> 0]]]

\* The open-file table after fs_open has taken slot j for the name at w.
OpenFiles(f, j, w) ==
  [open |-> f.open + 1,
   file |-> [f.file EXCEPT ![j] = [filename |-> strncpy(w), offset |-> 0]]]

\* The value fs_open returns after taking slot j.
OpenReturn(j) == 0

fs_open(w) ==
  /\ ~crashed
  /\ files.open < OpenCap
  /\ IF OpenFull(files) \/ FindEntry(root, w) = -1 \/ FreeFile(files) = -1
     THEN /\ last' = Call("open", w, 0, 0, <<>>, -1, <<>>)
          /\ UNCHANGED <<dev, vol, mounted, super, fat, root, files, disk, wild, crashed>>
     ELSE /\ files' = OpenFiles(files, FreeFile(files), w)
          /\ last' = Call("open", w, 0, 0, <<>>, OpenReturn(FreeFile(files)), <<>>)
          /\ UNCHANGED <<dev, vol, mounted, super, fat, root, disk, wild, crashed>>

\* fs_open(NULL)
fs_open_null ==
  /\ ~crashed
  /\ last' = Call("open_null", Zeros, 0, 0, <<>>, -1, <<>>)
  /\ UNCHANGED <<dev, vol, mounted, super, fat, root, files, disk, wild, crashed>>

\* ---------------------------------------------------------------- fs_close
\* The two descriptor tests shared by close, stat, lseek, write and read.
BadFd(f, fd) ==
  \/ fd < 0 \/ fd >= FS_OPEN_MAX_COUNT
  \/ f.file[fd].filename[1] = 0

\* The open-file table after fs_close has zeroed slot fd.
CloseFiles(f, fd) ==
  [open |-> f.open - 1, file |-> [f.file EXCEPT ![fd] = ZeroFile]]

fs_close(fd) ==
  /\ ~crashed
  /\ IF BadFd(files, fd)
     THEN /\ last' = Call("close", Zeros, fd, 0, <<>>, -1, <<>>)
          /\ UNCHANGED <<dev, vol, mounted, super, fat, root, files, disk, wild, crashed>>
     ELSE /\ files' = CloseFiles(files, fd)
          /\ last' = Call("close", Zeros, fd, 0, <<>>, 0, <<>>)
          /\ UNCHANGED <<dev, vol, mounted, super, fat, root, disk, wild, crashed>>

\* ----------------------------------------------------------------- fs_stat
fs_stat(fd) ==
  /\ ~crashed
  /\ last' = Call("stat", Zeros, fd, 0, <<>>,
                  IF BadFd(files, fd) THEN -1
                  ELSE IF FindEntry(root, files.file[fd].filename) = -1 THEN -1
                  ELSE root[FindEntry(root, files.file[fd].filename)].file_size,
                  <<>>)
  /\ UNCHANGED <<dev, vol, mounted, super, fat, root, files, disk, wild, crashed>>

\* ---------------------------------------------------------------- fs_lseek
\* The file size fs_lseek compares the offset with.
SeekLimit(r, f, fd) == r[fd].file_size

fs_lseek(fd, offset) ==
  /\ ~crashed
  /\ IF BadFd(files, fd) \/ offset > SeekLimit(root, files, fd)
     THEN /\ last' = Call("lseek", Zeros, fd, offset, <<>>, -1, <<>>)
          /\ UNCHANGED <<dev, vol, mounted, super, fat, root, files, disk, wild, crashed>>
     ELSE /\ files' = [files EXCEPT !.file[fd].offset = offset]
          /\ last' = Call("lseek", Zeros, fd, offset, <<>>, 0, <<>>)
          /\ UNCHANGED <<dev, vol, mounted, super, fat, root, disk, wild, crashed>>

\* ----------------------------------------------------------------- fs_info
\* The numerator of fat_free_ratio.
FreeFatCount(ft) == Cardinality({i \in DOMAIN ft : ft[i] = 0})

\* The numerator of rdir_free_ratio.
FreeDirCount(r) == Cardinality({i \in DirSlots : r[i].filename[1] = 0})

fs_info ==
  /\ ~crashed
  /\ last' = Call("info", Zeros, 0, 0, <<>>, 0,
                  <<super.total_blocks, super.fat_blocks, super.root_index,
                    super.data_index, super.data_blocks,
                    FreeFatCount(fat), FreeDirCount(root)>>)
  /\ UNCHANGED <<dev, vol, mounted, super, fat, root, files, disk, wild, crashed>>

\* ---------------------------------------------------------------- fs_write
\* Data block (relative to the data region) that holds byte `offset` of the
\* file whose directory entry is e.
BlockIndex(e, offset) == e.data_index + offset \div BLOCK_SIZE

\* memcpy(buffer + block_offset, buf, write_size) on a block image.
Overlay(blk, block_offset, buf, write_size) ==
  [i \in 1..BLOCK_SIZE |->
     IF i > block_offset /\ i <= block_offset + write_size
     THEN buf[i - block_offset] ELSE blk[i]]

\* The while loop of fs_write: the device contents and the offset it ends
\* with, and whether it ran to the end (ok) or left on a failed block_read.
RECURSIVE WriteLoop(_, _, _, _, _)
WriteLoop(d, s, e, offset, buf) ==
  IF Len(buf) = 0 THEN [disk |-> d, offset |-> offset, ok |-> TRUE]
  ELSE LET block_offset == offset % BLOCK_SIZE
           write_size == Min(BLOCK_SIZE - block_offset, Len(buf))
           b == s.data_index + BlockIndex(e, offset)
       IN IF ~BlockOk(s, b) THEN [disk |-> d, offset |-> offset, ok |-> FALSE]
          ELSE WriteLoop([d EXCEPT ![b] = Overlay(@, block_offset, buf, write_size)],
                         s, e, offset + write_size,
                         SubSeq(buf, write_size + 1, Len(buf)))

fs_write(fd, buf) ==
  /\ ~crashed
  /\ IF BadFd(files, fd)
     THEN /\ last' = Call("write", Zeros, fd, Len(buf), buf, -1, <<>>)
          /\ UNCHANGED <<dev, vol, mounted, super, fat, root, files, disk, wild, crashed>>
     ELSE IF FindEntry(root, files.file[fd].filename) = -1
     THEN /\ last' = Call("write", Zeros, fd, Len(buf), buf, -1, <<>>)
          /\ UNCHANGED <<dev, vol, mounted, super, fat, root, files, disk, wild, crashed>>
     ELSE LET i == FindEntry(root, files.file[fd].filename)
              r == WriteLoop(disk, super, root[i], files.file[fd].offset, buf)
          IN /\ disk' = r.disk
             /\ IF r.ok
                THEN /\ files' = [files EXCEPT !.file[fd].offset = r.offset]
                     /\ root' = IF r.offset > root[i].file_size
                                THEN [root EXCEPT ![i].file_size = r.offset]
                                ELSE root
                     /\ last' = Call("write", Zeros, fd, Len(buf), buf, Len(buf), <<>>)
                ELSE /\ UNCHANGED <<files, root>>
                     /\ last' = Call("write", Zeros, fd, Len(buf), buf, -1, <<>>)
             /\ UNCHANGED <<dev, vol, mounted, super, fat, wild, crashed>>

\* ----------------------------------------------------------------- fs_read
\* The number of bytes fs_read sets out to read.
Reading(e, offset, count) ==
  IF offset + count > e.file_size THEN e.file_size - offset ELSE count

\* The while loop of fs_read: the bytes copied to the caller, the offset and
\* the count still to read when it ends, and whether it ran to the end.
RECURSIVE ReadLoop(_, _, _, _, _, _)
ReadLoop(d, s, e, offset, reading, out) ==
  IF reading = 0 THEN [out |-> out, offset |-> offset, reading |-> 0, ok |-> TRUE]
  ELSE LET block_offset == offset % BLOCK_SIZE
           read_size == Min(BLOCK_SIZE - block_offset, reading)
           b == s.data_index + BlockIndex(e, offset)
       IN IF ~BlockOk(s, b)
          THEN [out |-> out, offset |-> offset, reading |-> reading, ok |-> FALSE]
          ELSE ReadLoop(d, s, e, offset + read_size, reading - read_size,
                        out \o SubSeq(d[b], block_offset + 1, block_offset + read_size))

\* The value fs_read returns when its loop has ended.
ReadReturn(count, reading) == count - reading

fs_read(fd, count) ==
  /\ ~crashed
  /\ IF BadFd(files, fd)
     THEN /\ last' = Call("read", Zeros, fd, count, <<>>, -1, <<>>)
          /\ UNCHANGED <<dev, vol, mounted, super, fat, root, files, disk, wild, crashed>>
     ELSE IF FindEntry(root, files.file[fd].filename) = -1
     THEN /\ last' = Call("read", Zeros, fd, count, <<>>, -1, <<>>)
          /\ UNCHANGED <<dev, vol, mounted, super, fat, root, files, disk, wild, crashed>>
     ELSE LET e == root[FindEntry(root, files.file[fd].filename)]
              offset == files.file[fd].offset
          IN IF offset >= e.file_size
             THEN /\ last' = Call("read", Zeros, fd, count, <<>>, 0, <<>>)
                  /\ UNCHANGED <<dev, vol, mounted, super, fat, root, files, disk, wild, crashed>>
             ELSE LET r == ReadLoop(disk, super, e, offset,
                                    Reading(e, offset, count), <<>>)
                  IN /\ files' = IF r.ok
                                 THEN [files EXCEPT !.file[fd].offset = r.offset]
                                 ELSE files
                     /\ last' = Call("read", Zeros, fd, count, <<>>,
                                     IF r.ok THEN ReadReturn(count, r.reading) ELSE -1,
                                     r.out)
                     /\ UNCHANGED <<dev, vol, mounted, super, fat, root, disk, wild, crashed>>

\* ------------------------------------------------------------------- fs_ls
\* The lines fs_ls prints: the entries in use, in slot order.
LsLines(r) ==
  SelectSeq([k \in 1..FS_FILE_MAX_COUNT |-> r[k - 1]],
            LAMBDA e : e.filename[1] # 0)

fs_ls ==
  /\ ~crashed
  /\ last' = Call("ls", Zeros, 0, 0, <<>>, 0, LsLines(root))
  /\ UNCHANGED <<dev, vol, mounted, super, fat, root, files, disk, wild, crashed>>

\* ---------------------------------------------------------------- fs_mount
\* The globals of a process that has not called fs_mount: all zero, fat.flat
\* NULL.
ZeroSuper ==
  [signature |-> "", total_blocks |-> 0, root_index |-> 0,
   data_index |-> 0, data_blocks |-> 0, fat_blocks |-> 0]
NullFat == [i \in {} |-> 0]
NoDisk == [b \in {} |-> ZeroBlock]

\* The state at process start: no disk open, one valid and one invalid
\* disk file in the directory.
Boot ==
  /\ \E b \in BadVolumes :
       vol = [v \in Volumes |->
                IF v = "good" THEN VolumeOf(EmptyFileImage) ELSE b]
  /\ dev = [open |-> FALSE, name |-> "", opens |-> 0]
  /\ mounted = ""
  /\ super = ZeroSuper
  /\ fat = NullFat
  /\ root = [i \in DirSlots |-> ZeroEntry]
  /\ files = [open |-> 0, file |-> [j \in FdSlots |-> ZeroFile]]
  /\ disk = NoDisk
  /\ wild = {}
  /\ crashed = FALSE
  /\ last = NoCall

\* Disks opened in one run of the process.
MaxOpens == 2

\* block_disk_open: the file exists and no disk is open yet.
DiskOpens(d, vl, name) == name \in DOMAIN vl /\ ~d.open

\* fat_min, held in a uint8_t.
FatMin(s) == ((s.data_blocks * 2 + BLOCK_SIZE - 1) \div BLOCK_SIZE) % 256

\* The five tests fs_mount applies to the superblock, given the disk's
\* block count.
SuperChecks(s, count) ==
  /\ s.signature = "ECS150FS"
  /\ s.fat_blocks + s.data_blocks = s.total_blocks - 2
  /\ s.total_blocks = count
  /\ s.fat_blocks + 1 = s.root_index /\ s.root_index + 1 = s.data_index
  /\ s.fat_blocks = FatMin(s)

\* fs_mount copies fat_blocks whole blocks into an array of data_blocks
\* entries: the last copy runs past the end of the array, which either
\* overwrites other memory of the process or kills it.
FatOverflow(s) == s.fat_blocks * FatPerBlock > s.data_blocks
OverflowIndices(s) == s.data_blocks..(s.fat_blocks * FatPerBlock - 1)

\* fat.flat[] after the FAT blocks have been copied in.
LoadFat(s, blocks) == [i \in 0..(s.data_blocks - 1) |-> blocks[i]]

\* The FAT blocks fs_umount writes: fat_blocks whole blocks copied from
\* fat.flat[]; what lies behind the array's end is whatever the heap holds
\* (g).
StoreFat(s, ft, g) ==
  [i \in 0..(s.fat_blocks * FatPerBlock - 1) |->
     IF i \in DOMAIN ft THEN ft[i] ELSE g]

\* The device is left open on each failing return after block_disk_open;
\* the FAT block reads of lines 91-98 cannot fail once the tests of lines
\* 69-75 have passed (fat_blocks < count); files is not touched.
fs_mount(diskname) ==
  /\ ~crashed
  /\ dev.opens < MaxOpens
  /\ IF ~DiskOpens(dev, vol, diskname)
     THEN /\ last' = Call("mount", Zeros, 0, 0, diskname, -1, <<>>)
          /\ UNCHANGED <<dev, vol, mounted, super, fat, root, files, disk, wild, crashed>>
     ELSE LET v == vol[diskname] IN
          /\ dev' = [open |-> TRUE, name |-> diskname, opens |-> dev.opens + 1]
          /\ disk' = v.data
          /\ super' = v.super
          /\ IF ~SuperChecks(v.super, v.count)
             THEN /\ last' = Call("mount", Zeros, 0, 0, diskname, -1, <<>>)
                  /\ UNCHANGED <<vol, mounted, fat, root, files, wild, crashed>>
             ELSE \E dies \in (IF FatOverflow(v.super) THEN BOOLEAN ELSE {FALSE}) :
                  IF dies
                  THEN /\ crashed' = TRUE
                       /\ last' = Call("killed", Zeros, 0, 0, diskname, 0, <<>>)
                       /\ UNCHANGED <<vol, mounted, fat, root, files, wild>>
                  ELSE /\ fat' = LoadFat(v.super, v.fat)
                       /\ wild' = wild \cup OverflowIndices(v.super)
                       /\ IF v.fat[0] # FAT_EOC
                          THEN /\ last' = Call("mount", Zeros, 0, 0, diskname, -1, <<>>)
                               /\ UNCHANGED <<vol, mounted, root, files, crashed>>
                          ELSE /\ root' = v.root
                               /\ mounted' = diskname
                               /\ last' = Call("mount", Zeros, 0, 0, diskname, 0, <<>>)
                               /\ UNCHANGED <<vol, files, crashed>>

\* --------------------------------------------------------------- fs_umount
\* fs_umount copies from fat.flat while it is still NULL: the process dies
\* after block 0 has been written.
NullFatCopy(s, ft) == DOMAIN ft = {} /\ s.fat_blocks > 0

\* While a disk is open super is that disk's block 0, and on every disk
\* file here blocks 1 .. fat_blocks and root_index lie below the block
\* count, so the writes of lines 127 and 133 succeed. Nothing in memory is
\* changed: super, fat, root and files stay as they are.
fs_umount ==
  /\ ~crashed
  /\ IF ~dev.open
     THEN /\ last' = Call("umount", Zeros, 0, 0, mounted, -1, <<>>)
          /\ UNCHANGED <<dev, vol, mounted, super, fat, root, files, disk, wild, crashed>>
     ELSE IF NullFatCopy(super, fat)
     THEN /\ vol' = [vol EXCEPT ![dev.name].super = super]
          /\ crashed' = TRUE
          /\ last' = Call("killed", Zeros, 0, 0, mounted, 0, <<>>)
          /\ UNCHANGED <<dev, mounted, super, fat, root, files, disk, wild>>
     ELSE /\ \E g \in {0, FAT_EOC} :
               vol' = [vol EXCEPT ![dev.name] =
                         [count |-> @.count, super |-> super,
                          fat |-> StoreFat(super, fat, g),
                          root |-> root, data |-> disk]]
          /\ dev' = [open |-> FALSE, name |-> "", opens |-> dev.opens]
          /\ mounted' = ""
          /\ last' = Call("umount", Zeros, 0, 0, mounted, 0, <<>>)
          /\ UNCHANGED <<super, fat, root, files, disk, wild, crashed>>

\* ------------------------------------------------------------- call inputs
Fds == (-1)..FS_OPEN_MAX_COUNT

\* Directory and open-file-table operations, over every kind of name buffer.
Next ==
  \/ \E w \in Windows : fs_create(w)
  \/ \E w \in Windows : fs_delete(w)
  \/ \E w \in Windows : fs_open(w)
  \/ fs_open_null
  \/ \E fd \in Fds : fs_close(fd)
  \/ \E fd \in Fds : fs_stat(fd)
  \/ fs_info
  \/ fs_ls

Spec == Init /\ [][Next]_vars

\* The same operations, called with well-formed names only: zero-padded
\* buffers holding a non-empty string, or a string that is too long.
NameWindows == {Clean(<<97>>), Clean(<<98>>), Clean(<<99>>), TooLong}

NextNames ==
  \/ \E w \in NameWindows : fs_create(w)
  \/ \E w \in NameWindows : fs_delete(w)
  \/ \E w \in NameWindows : fs_open(w)
  \/ fs_open_null
  \/ \E fd \in Fds : fs_close(fd)
  \/ \E fd \in Fds : fs_stat(fd)
  \/ fs_info
  \/ fs_ls

SpecNames == Init /\ [][NextNames]_vars

\* All operations, data transfer included, over zero-padded name buffers.
IOCreateWindows == {Clean(<<98>>)}
IOWindows == {Clean(<<97>>), Clean(<<98>>)}
IOFds == 0..FS_OPEN_MAX_COUNT
IOOffsets == {0, 1}
IOBufs == {<<5>>, [i \in 1..(BLOCK_SIZE + 1) |-> 5]}
IOCounts == {BLOCK_SIZE + 1}

NextIO ==
  \/ \E w \in IOCreateWindows : fs_create(w)
  \/ \E w \in IOCreateWindows : fs_delete(w)
  \/ \E w \in IOWindows : fs_open(w)
  \/ \E fd \in IOFds : fs_close(fd)
  \/ \E fd \in IOFds : fs_stat(fd)
  \/ \E fd \in IOFds, offset \in IOOffsets : fs_lseek(fd, offset)
  \/ \E fd \in IOFds, buf \in IOBufs : fs_write(fd, buf)
  \/ \E fd \in IOFds, count \in IOCounts : fs_read(fd, count)

SpecIO == Init /\ [][NextIO]_vars

\* Calls of a process that starts without a mounted volume.
MountCreateWindows == {Clean(<<99>>)}
MountDeleteWindows == {Clean(<<>>)}
MountOpenWindows == {Clean(<<97>>)}
MountFds == {0}
MountOffsets == {0}
MountBufs == {[i \in 1..(BLOCK_SIZE + 1) |-> 5]}
MountCounts == {BLOCK_SIZE + 1}
NextMount ==
  \/ \E d \in Disknames : fs_mount(d)
  \/ fs_umount
  \/ \E w \in MountCreateWindows : fs_create(w)
  \/ \E w \in MountDeleteWindows : fs_delete(w)
  \/ \E w \in MountOpenWindows : fs_open(w)
  \/ \E fd \in MountFds : fs_close(fd)
  \/ \E fd \in MountFds : fs_stat(fd)
  \/ \E fd \in MountFds : \E o \in MountOffsets : fs_lseek(fd, o)
  \/ \E fd \in MountFds : \E b \in MountBufs : fs_write(fd, b)
  \/ \E fd \in MountFds : \E n \in MountCounts : fs_read(fd, n)
SpecMount == Boot /\ [][NextMount]_vars
\* ========================================================== properties
\* The buffer at w holds nothing but zeros after the string's terminator.
IsClean(w) == w = strncpy(w)

\* Slot j of the open-file table f is in use.
Occupied(f, j) == f.file[j].filename[1] # 0

\* Some directory entry in use carries the name of the string at w.
Exists(r, w) ==
  \E i \in DirSlots : r[i].filename[1] # 0 /\ r[i].filename = strncpy(w)

\* Some open handle carries the name of the string at w.
Referenced(f, w) ==
  \E j \in FdSlots : Occupied(f, j) /\ f.file[j].filename = strncpy(w)

\* The FAT entries on the chain that starts at index start, following at
\* most n links and stopping at the end-of-chain marker.
RECURSIVE Chain(_, _, _)
Chain(ft, start, n) ==
  IF n = 0 \/ start \notin DOMAIN ft THEN {}
  ELSE {start} \cup Chain(ft, ft[start], n - 1)

ChainOf(ft, e) == Chain(ft, e.data_index, Cardinality(DOMAIN ft))

\* C1 (as claimed): a successful open returns the index of the slot it has
\* just occupied, which was the lowest free slot and now holds the name with
\* offset 0.
C1_OpenReturnsSlot ==
  [][(last'.op = "open" /\ last'.ret # -1) =>
       /\ last'.ret \in FdSlots
       /\ ~Occupied(files, last'.ret)
       /\ \A k \in FdSlots : k < last'.ret => Occupied(files, k)
       /\ files'.file[last'.ret] = [filename |-> strncpy(last'.w), offset |-> 0]
    ]_vars

\* C2 (as claimed): open of a non-null name fails only if every open-file
\* slot is occupied or no directory entry in use has the name.
C2_OpenFailsOnlyIf ==
  [][(last'.op = "open" /\ IsClean(last'.w) /\ last'.w[1] # 0 /\ last'.ret = -1) =>
       \/ \A j \in FdSlots : Occupied(files, j)
       \/ ~Exists(root, last'.w)
    ]_vars

\* C3: delete(name) fails whenever some open handle references name, and
\* then leaves the root directory, the FAT and the open-file table unchanged.
C3_DeleteWhileOpenFails ==
  [][(last'.op = "delete" /\ Referenced(files, last'.w)) =>
       /\ last'.ret = -1
       /\ UNCHANGED <<root, fat, files, wild, disk>>
    ]_vars

\* A delete of a name that is in the directory and held by a handle has
\* just been refused.
C3_Witness ==
  /\ last.op = "delete" /\ last.ret = -1
  /\ IsClean(last.w) /\ last.w[1] # 0
  /\ Exists(root, last.w)
  /\ Referenced(files, last.w)

\* C4 (as claimed): delete of a file in the directory succeeds once every
\* handle has been closed.
C4_DeleteAfterClose ==
  [][(/\ last'.op = "delete"
      /\ IsClean(last'.w) /\ last'.w[1] # 0
      /\ Exists(root, last'.w)
      /\ \A j \in FdSlots : ~Occupied(files, j)) =>
       last'.ret = 0
    ]_vars

\* C5 (as claimed): a successful delete zeroes exactly the FAT entries of
\* the file's chain and the directory entry, and stores nowhere else.
C5_DeleteFreesChain ==
  [][(last'.op = "delete" /\ last'.ret = 0 /\ last'.w[1] # 0) =>
       \E i \in DirSlots :
         /\ root[i].filename = last'.w
         /\ fat' = [k \in DOMAIN fat |->
                      IF k \in ChainOf(fat, root[i]) THEN 0 ELSE fat[k]]
         /\ FreeFatCount(fat') =
              FreeFatCount(fat) + Cardinality(ChainOf(fat, root[i]))
         /\ root' = [root EXCEPT ![i] = ZeroEntry]
         /\ wild' = wild
    ]_vars

\* C6 (as claimed): a successful create leaves every FAT entry, and so the
\* free count that info reports, unchanged.
C6_CreateKeepsFat ==
  [][(last'.op = "create" /\ last'.ret = 0) =>
       fat' = fat /\ FreeFatCount(fat') = FreeFatCount(fat)
    ]_vars

\* C7 (as claimed): a successful create fills the lowest free directory
\* slot with the name, file_size 0 and first_data_index 0xFFFF.
C7_CreateEntry ==
  [][(last'.op = "create" /\ last'.ret = 0) =>
       \E i \in DirSlots :
         /\ root[i].filename[1] = 0
         /\ \A k \in DirSlots : k < i => root[k].filename[1] # 0
         /\ root' = [root EXCEPT ![i] =
                       [filename |-> strncpy(last'.w), file_size |-> 0,
                        data_index |-> FAT_EOC]]
    ]_vars

\* C8 (as claimed): create fails only for a name of FS_FILENAME_LEN or more
\* characters, a name already in the directory, or a full directory.
C8_CreateFailsOnlyIf ==
  [][(last'.op = "create" /\ last'.ret = -1 /\ last'.w[1] # 0) =>
       \/ strlen(last'.w) >= FS_FILENAME_LEN
       \/ Exists(root, last'.w)
       \/ \A i \in DirSlots : root[i].filename[1] # 0
    ]_vars
\* Number of blocks on the chain of directory entry e (none for an empty file).
ChainLen(ft, e) == Cardinality(ChainOf(ft, e))

Max(a, b) == IF a > b THEN a ELSE b

\* C9 (as claimed): on a fresh, empty file a write of n bytes at offset 0,
\* with n no more than the free data blocks hold, returns n and makes the
\* file n bytes long.
C9_WriteFreshFile ==
  [][(last'.op = "write" /\ ~BadFd(files, last'.fd)) =>
       \A i \in DirSlots :
         (/\ root[i].filename = files.file[last'.fd].filename
          /\ root[i].file_size = 0
          /\ root[i].data_index = FAT_EOC
          /\ files.file[last'.fd].offset = 0
          /\ last'.n > 0
          /\ last'.n <= BLOCK_SIZE * FreeFatCount(fat))
         => /\ last'.ret = last'.n
            /\ root'[i].file_size = last'.n
            /\ files'.file[last'.fd].offset = last'.n
    ]_vars

\* C10 (as claimed): a write that needs a block the chain lacks takes the
\* lowest free FAT entry; it returns the bytes that fitted in the chain and
\* the free blocks, and offset and file_size advance by just that count.
C10_WriteAllocates ==
  [][(last'.op = "write" /\ ~BadFd(files, last'.fd) /\ last'.n > 0) =>
       \A i \in DirSlots :
         root[i].filename = files.file[last'.fd].filename =>
           LET off == files.file[last'.fd].offset
               have == ChainLen(fat, root[i])
               free == FreeFatCount(fat)
               written == Max(0, Min(last'.n, (have + free) * BLOCK_SIZE - off))
           IN /\ (off + last'.n > have * BLOCK_SIZE /\ free > 0)
                   => fat'[FreeFat(fat)] # 0
              /\ last'.ret = written
              /\ files'.file[last'.fd].offset = off + written
              /\ root'[i].file_size = Max(root[i].file_size, off + written)
    ]_vars
\* Number of entries in use that a walk of the FAT from index start visits,
\* up to and including the one that holds the end-of-chain marker, following
\* at most n links.
RECURSIVE Walk(_, _, _)
Walk(ft, start, n) ==
  IF n = 0 \/ start \notin DOMAIN ft THEN 0
  ELSE IF ft[start] = 0 THEN 0
  ELSE IF ft[start] = FAT_EOC THEN 1
  ELSE 1 + Walk(ft, ft[start], n - 1)

\* Blocks that s bytes take.
BlocksFor(s) == (s + BLOCK_SIZE - 1) \div BLOCK_SIZE

\* C11 (as claimed): every directory entry in use is either empty with
\* first_data_index 0xFFFF, or has a chain of at least ceil(file_size /
\* BLOCK_SIZE) entries in use.
C11_ChainCoversSize ==
  \A i \in DirSlots :
    root[i].filename[1] # 0 =>
      \/ root[i].file_size = 0 /\ root[i].data_index = FAT_EOC
      \/ Walk(fat, root[i].data_index, Cardinality(DOMAIN fat))
           >= BlocksFor(root[i].file_size)

\* C12 (as claimed): FAT entry 0 is 0xFFFF in every state of a mounted
\* volume.
C12_FatZeroIsEOC == fat[0] = FAT_EOC

\* C13 (as claimed): lseek on an open descriptor fails exactly when the
\* offset exceeds the file_size of the entry named by the handle; on
\* success only that handle's offset changes.
C13_SeekLimitByName ==
  [][(last'.op = "lseek" /\ ~BadFd(files, last'.fd)) =>
       \A i \in DirSlots :
         root[i].filename = files.file[last'.fd].filename =>
           /\ (last'.ret = -1) <=> (last'.n > root[i].file_size)
           /\ last'.ret # -1 =>
                /\ last'.ret = 0
                /\ files' = [files EXCEPT !.file[last'.fd].offset = last'.n]
                /\ UNCHANGED <<root, fat, disk>>
    ]_vars

\* C14 (as claimed): a read whose block reads succeed returns
\* min(count, file_size - offset), or 0 at or past the end, and advances
\* the offset by the value returned.
C14_ReadCount ==
  [][(last'.op = "read" /\ ~BadFd(files, last'.fd) /\ last'.ret # -1) =>
       \A i \in DirSlots :
         root[i].filename = files.file[last'.fd].filename =>
           LET off == files.file[last'.fd].offset
               want == IF off < root[i].file_size
                       THEN Min(last'.n, root[i].file_size - off) ELSE 0
           IN /\ last'.ret = want
              /\ files'.file[last'.fd].offset = off + want
              /\ files'.file[last'.fd].offset <= Max(off, root[i].file_size)
    ]_vars

\* The disk file called name is a valid volume as the format defines it: the
\* five superblock invariants hold and FAT entry 0 is the end-of-chain mark.
ValidVolume(vl, name) ==
  /\ name \in DOMAIN vl
  /\ LET s == vl[name].super
     IN /\ s.signature = "ECS150FS"
        /\ s.fat_blocks + s.data_blocks = s.total_blocks - 2
        /\ s.total_blocks = vl[name].count
        /\ s.root_index = s.fat_blocks + 1 /\ s.data_index = s.root_index + 1
        /\ s.fat_blocks = BlocksFor(s.data_blocks * 2)
  /\ vl[name].fat[0] = FAT_EOC

\* C15 (as claimed): while no mount is active, mount succeeds exactly on an
\* existing disk that holds a valid volume, and a mount that fails leaves
\* the block device closed.
C15_MountValidates ==
  [][(last'.op = "mount" /\ mounted = "" /\ ~dev.open) =>
       /\ (last'.ret = 0) <=> ValidVolume(vol, last'.buf)
       /\ last'.ret # 0 => last'.ret = -1 /\ ~dev'.open
    ]_vars

\* C16 (as claimed): after a successful unmount followed by a successful
\* mount no handle is open: every slot of the open-file table is free.
C16_HandlesDiscarded ==
  [][(/\ last.op = "umount" /\ last.ret = 0
      /\ last'.op = "mount" /\ last'.ret = 0) =>
       \A j \in FdSlots : ~Occupied(files', j)
    ]_vars

\* C17 (as claimed): a successful unmount of a mounted volume followed by
\* mount of the same disk succeeds and leaves the superblock, the FAT and
\* the root directory in memory as they were just before the unmount.
C17_RoundTrip ==
  [][(/\ last.op = "umount" /\ last.ret = 0 /\ last.buf # ""
      /\ last'.op = "mount" /\ last'.buf = last.buf) =>
       /\ last'.ret = 0
       /\ super' = super /\ fat' = fat /\ root' = root
    ]_vars

\* C18 (as claimed): while no mount is active, unmount, create, delete,
\* open, close, stat, lseek, read and write return -1 and change nothing
\* in memory.
C18_NoMountNoEffect ==
  [][(/\ mounted = ""
      /\ last'.op \in {"umount", "create", "delete", "open", "close",
                       "stat", "lseek", "read", "write"}) =>
       /\ last'.ret = -1
       /\ UNCHANGED <<super, fat, root, files, wild>>
    ]_vars

\* C19 (as claimed): a call rejected for an invalid argument returns
\* failure and leaves the directory, the FAT and the open-file table alone.
C19_RejectedCallsChangeNothing ==
  [][(\/ /\ last'.op \in {"close", "stat", "lseek", "read", "write"}
         /\ BadFd(files, last'.fd)
      \/ /\ last'.op \in {"open", "delete"}
         /\ IsClean(last'.w)
         /\ ~Exists(root, last'.w)
      \/ /\ last'.op = "create"
         /\ IsClean(last'.w)
         /\ \/ strlen(last'.w) >= FS_FILENAME_LEN
            \/ Exists(root, last'.w)
            \/ \A i \in DirSlots : root[i].filename[1] # 0
      \/ /\ last'.op = "open"
         /\ \A j \in FdSlots : Occupied(files, j)) =>
       /\ last'.ret = -1
       /\ UNCHANGED <<root, fat, files, wild>>
    ]_vars

\* C20 (as claimed): files.open is the number of open-file slots in use.
C20_OpenCountsHandles ==
  files.open = Cardinality({j \in FdSlots : Occupied(files, j)})
====
